---- MODULE Spec2Model ----
(***************************************************************************)
(* Model of the fabric reachability check                                  *)
(* (scripts/inventory/reachability_checks/conn_check.py).                  *)
(*                                                                         *)
(* Text is modelled as sequences of one-character strings, so that the     *)
(* string operations of the code (lstrip, split, lower, replace, the       *)
(* regular expressions, the f-string device key) are computed, not assumed.*)
(***************************************************************************)
EXTENDS Integers, Sequences, FiniteSets, TLC

(***************************************************************************)
(* Characters and the string primitives the code uses                      *)
(***************************************************************************)
UpperSeq ==
    <<"A","B","C","D","E","F","G","H","I","J","K","L","M",
      "N","O","P","Q","R","S","T","U","V","W","X","Y","Z">>

LowerSeq ==
    <<"a","b","c","d","e","f","g","h","i","j","k","l","m",
      "n","o","p","q","r","s","t","u","v","w","x","y","z">>

Digits == {"0","1","2","3","4","5","6","7","8","9"}

Range(f) == {f[i] : i \in DOMAIN f}

\* str.isspace for the characters of the model
IsSpace(c) == c \in {" ", "\t", "\r"}

IsDigit(c) == c \in Digits

\* the regular expression class \w
IsWordChar(c) == c \in Range(UpperSeq) \cup Range(LowerSeq) \cup Digits \cup {"_"}

LowerChar(c) ==
    IF c \in Range(UpperSeq)
    THEN LowerSeq[CHOOSE i \in DOMAIN UpperSeq : UpperSeq[i] = c]
    ELSE c

\* str.lower()
Lower(s) == [i \in 1..Len(s) |-> LowerChar(s[i])]

SetMin(S) == CHOOSE x \in S : \A y \in S : x <= y
SetMax(S) == CHOOSE x \in S : \A y \in S : x >= y

\* str.lstrip()
LStrip(s) ==
    LET ns == {i \in 1..Len(s) : ~IsSpace(s[i])}
    IN  IF ns = {} THEN <<>> ELSE SubSeq(s, SetMin(ns), Len(s))

\* str.strip()
Strip(s) ==
    LET ns == {i \in 1..Len(s) : ~IsSpace(s[i])}
    IN  IF ns = {} THEN <<>> ELSE SubSeq(s, SetMin(ns), SetMax(ns))

\* w occurs in s at position i
HasAt(s, w, i) ==
    /\ i >= 1
    /\ i + Len(w) - 1 <= Len(s)
    /\ \A k \in 1..Len(w) : s[i + k - 1] = w[k]

\* the regular expression \b between s[p] and s[p+1] (p in 0..Len(s))
Boundary(s, p) ==
    LET W(k) == k \in 1..Len(s) /\ IsWordChar(s[k])
    IN  W(p) # W(p + 1)

\* re.search(r'\bw\b', s)
SearchWord(s, w) ==
    \E i \in 1..Len(s) :
        /\ HasAt(s, w, i)
        /\ Boundary(s, i - 1)
        /\ Boundary(s, i + Len(w) - 1)

\* end of the whitespace run that starts at i
RECURSIVE RunEnd(_, _)
RunEnd(s, i) ==
    IF i < Len(s) /\ IsSpace(s[i + 1]) THEN RunEnd(s, i + 1) ELSE i

\* split s on every whitespace run of at least minRun characters; like
\* re.split it keeps the empty parts at either end
RECURSIVE SplitRuns(_, _, _, _)
SplitRuns(s, minRun, i, cur) ==
    IF i > Len(s) THEN <<cur>>
    ELSE IF IsSpace(s[i]) /\ RunEnd(s, i) - i + 1 >= minRun
         THEN <<cur>> \o SplitRuns(s, minRun, RunEnd(s, i) + 1, <<>>)
         ELSE SplitRuns(s, minRun, i + 1, Append(cur, s[i]))

\* re.split(r'\s{2,}', s)
SplitColumns(s) == SplitRuns(s, 2, 1, <<>>)

\* str.split(): whitespace-delimited tokens, no empty ones
Split(s) == SelectSeq(SplitRuns(s, 1, 1, <<>>), LAMBDA p : p # <<>>)

(***************************************************************************)
(* parse_interface_status_output                                           *)
(***************************************************************************)
unknown      == <<"u","n","k","n","o","w","n">>
connected    == <<"c","o","n","n","e","c","t","e","d">>
notconnect   == <<"n","o","t","c","o","n","n","e","c","t">>
kw_not       == <<"n","o","t">>
kw_connect   == <<"c","o","n","n","e","c","t">>
disabled     == <<"d","i","s","a","b","l","e","d">>
err_disabled == <<"e","r","r","-","d","i","s","a","b","l","e","d">>
errdisabled  == <<"e","r","r","d","i","s","a","b","l","e","d">>
suspended    == <<"s","u","s","p","e","n","d","e","d">>
not_found    == <<"n","o","t"," ","f","o","u","n","d">>

\* the set literal of line 29
status_keywords ==
    {connected, notconnect, kw_not, disabled, err_disabled, err_disabled, suspended}

\* last index of the run of digits of s that starts at i (i - 1 when there is none)
RECURSIVE DigitsEnd(_, _)
DigitsEnd(s, i) ==
    IF i <= Len(s) /\ IsDigit(s[i]) THEN DigitsEnd(s, i + 1) ELSE i - 1

\* one group (?:/\d+) starting after position p: its last index, or 0
SlashGroup(s, p) ==
    IF p + 1 <= Len(s) /\ s[p + 1] = "/" /\ DigitsEnd(s, p + 2) >= p + 2
    THEN DigitsEnd(s, p + 2)
    ELSE 0

\* re.match(r'^(Eth\d+(?:/\d+){1,2}|mgmt\d+)\b', s, re.IGNORECASE): the length
\* of group 1, or 0 when the line does not match. \d+ and {1,2} are greedy and
\* the engine backtracks from two groups to one when \b fails after the second.
MatchInterface(s) ==
    LET low == Lower(s)
        d1  == DigitsEnd(s, 4)
        g1  == IF HasAt(low, <<"e","t","h">>, 1) /\ d1 >= 4 THEN SlashGroup(s, d1) ELSE 0
        g2  == IF g1 > 0 THEN SlashGroup(s, g1) ELSE 0
        m   == DigitsEnd(s, 5)
    IN  IF g2 > 0 /\ Boundary(s, g2) THEN g2
        ELSE IF g1 > 0 /\ Boundary(s, g1) THEN g1
        ELSE IF HasAt(low, <<"m","g","m","t">>, 1) /\ m >= 5 /\ Boundary(s, m) THEN m
        ELSE 0

\* the token scan without the normalisation of lines 36-37
RECURSIVE TokenScanVerbatim(_, _)
TokenScanVerbatim(tokens, i) ==
    IF i > Len(tokens) THEN unknown
    ELSE LET tt == Lower(Strip(tokens[i]))
         IN  IF tt \in status_keywords THEN tt ELSE TokenScanVerbatim(tokens, i + 1)

\* lines 31-40: the token scan over tokens[1:], from status = 'unknown'
RECURSIVE TokenScan(_, _)
TokenScan(tokens, i) ==
    IF i > Len(tokens) THEN unknown
    ELSE LET tt == Lower(Strip(tokens[i]))
         IN  IF tt \in status_keywords
             THEN (IF tt = kw_not THEN notconnect ELSE tt)
             ELSE TokenScan(tokens, i + 1)

\* re.search(r'\berr-?disabled\b', lower)
SearchErrDisabled(lower) ==
    SearchWord(lower, err_disabled) \/ SearchWord(lower, errdisabled)

\* re.search(r'\bnot\s*connect\b|\bnotconnect\b', lower)
SearchNotConnect(lower) ==
    \/ \E i \in 1..Len(lower) : \E j \in (i + 3)..Len(lower) :
          /\ HasAt(lower, kw_not, i)
          /\ Boundary(lower, i - 1)
          /\ \A k \in (i + 3)..(j - 1) : IsSpace(lower[k])
          /\ HasAt(lower, kw_connect, j)
          /\ Boundary(lower, j + Len(kw_connect) - 1)
    \/ SearchWord(lower, notconnect)

\* lines 56-62: the third column, else the third token, else status stays 'unknown'
ColumnSlice(s) ==
    LET parts  == SplitColumns(s)
        parts2 == Split(s)
    IN  IF Len(parts) >= 3 THEN Lower(Strip(parts[3]))
        ELSE IF Len(parts2) >= 3 THEN Lower(Strip(parts2[3]))
        ELSE unknown

\* lines 45-53: the if/elif chain of re.search calls; unknown when none matches
KeywordSearch(lower) ==
    IF SearchErrDisabled(lower) THEN err_disabled
    ELSE IF SearchWord(lower, disabled) THEN disabled
    ELSE IF SearchNotConnect(lower) THEN notconnect
    ELSE IF SearchWord(lower, suspended) THEN suspended
    ELSE IF SearchWord(lower, connected) THEN connected
    ELSE unknown

\* LineResult with the keyword search tried before the token scan
LineResultKeywordFirst(s) ==
    LET scanned == TokenScan(Split(s), 2)
        searched == KeywordSearch(Lower(s))
    IN  IF searched # unknown THEN [status |-> searched, strategy |-> "keyword"]
        ELSE IF scanned # unknown THEN [status |-> scanned, strategy |-> "token"]
        ELSE [status |-> ColumnSlice(s), strategy |-> "column"]

\* lines 25-62 for the stripped line s: the status, and the branch that set it
LineResult(s) ==
    LET scanned == TokenScan(Split(s), 2)
        searched == KeywordSearch(Lower(s))
    IN  IF scanned # unknown THEN [status |-> scanned, strategy |-> "token"]
        ELSE IF searched # unknown THEN [status |-> searched, strategy |-> "keyword"]
        ELSE [status |-> ColumnSlice(s), strategy |-> "column"]

LineStatus(s) == LineResult(s).status

\* lines 19-64: one iteration of the loop; the status map after `line`
ParseLineInto(map, ln) ==
    LET s == LStrip(ln)
        m == MatchInterface(s)
    IN  IF m > 0 THEN (SubSeq(s, 1, m) :> LineStatus(s)) @@ map ELSE map

\* lines 14-66 over the lines of output.split('\n')
RECURSIVE ParseLines(_, _, _)
ParseLines(lines, i, map) ==
    IF i > Len(lines) THEN map
    ELSE ParseLines(lines, i + 1, ParseLineInto(map, lines[i]))

parse_interface_status_output(lines) == ParseLines(lines, 1, <<>>)

(***************************************************************************)
(* Parsed YAML documents: the values yaml.safe_load returns                *)
(***************************************************************************)
None == [t |-> "none", s |-> <<>>, items |-> <<>>]
Str(chars) == [t |-> "str", s |-> chars, items |-> <<>>]
\* a mapping: its items() in document order, each an Entry
Map(entries) == [t |-> "map", s |-> <<>>, items |-> entries]
List(elems) == [t |-> "seq", s |-> <<>>, items |-> elems]
Entry(key, value) == [k |-> key, v |-> value]

key_ip_address == <<"i","p"," ","a","d","d","r","e","s","s">>
key_ip_underscore == <<"i","p","_","a","d","d","r","e","s","s">>
key_hostname == <<"h","o","s","t","n","a","m","e">>

(***************************************************************************)
(* extract_devices_from_yaml                                               *)
(***************************************************************************)
\* lines 212-223: find_device_info(obj), as the device_info it leaves
RECURSIVE find_device_info(_, _)
RECURSIVE FindInItems(_, _, _)
RECURSIVE FindInList(_, _, _)

\* an assignment that keeps a value already found
AssignFoundOnce(info, field, value) ==
    IF field \in DOMAIN info THEN info ELSE (field :> value) @@ info

\* line 216 and line 218: the assignment to device_info
AssignFound(info, field, value) == (field :> value) @@ info

\* lines 214-220: for key, value in obj.items()
FindInItems(entries, i, info) ==
    IF i > Len(entries) THEN info
    ELSE LET key == Lower(entries[i].k)
             value == entries[i].v
             after ==
                 IF key = key_ip_address \/ key = key_ip_underscore
                 THEN AssignFound(info, "ip", value)
                 ELSE IF key = key_hostname
                 THEN AssignFound(info, "hostname", value)
                 ELSE IF value.t \in {"map", "seq"}
                 THEN find_device_info(value, info)
                 ELSE info
         IN  FindInItems(entries, i + 1, after)

\* lines 222-223: for item in obj
FindInList(elems, i, info) ==
    IF i > Len(elems) THEN info
    ELSE FindInList(elems, i + 1, find_device_info(elems[i], info))

find_device_info(obj, info) ==
    IF obj.t = "map" THEN FindInItems(obj.items, 1, info)
    ELSE IF obj.t = "seq" THEN FindInList(obj.items, 1, info)
    ELSE info

\* line 229: f"{device_info['hostname']}_{device_info['ip']}" for string values
device_key(info) == info["hostname"].s \o <<"_">> \o info["ip"].s

\* line 192: yaml_file.suffix.lower() in ('.yaml', '.yml')
SuffixEligible(suffix) ==
    Lower(suffix) \in { <<".","y","a","m","l">>, <<".","y","m","l">> }

\* lines 190-235: one iteration of the loop over rglob("*"), for the file at
\* position `path` of the listing; sc is [device_list, seen_devices]
ScanFile(sc, file, path) ==
    IF ~file.is_file THEN sc
    ELSE IF ~SuffixEligible(file.suffix) THEN sc
    ELSE IF file.rel_parts < 2 THEN sc
    ELSE IF ~file.readable THEN sc
    ELSE LET device_info == find_device_info(file.data, ("filepath" :> path))
         IN  IF "ip" \in DOMAIN device_info /\ "hostname" \in DOMAIN device_info
             THEN IF device_key(device_info) \notin sc.seen_devices
                  THEN [device_list |-> Append(sc.device_list, device_info),
                        seen_devices |-> sc.seen_devices \cup {device_key(device_info)}]
                  ELSE sc
             ELSE sc

RECURSIVE ScanFiles(_, _, _)
ScanFiles(listing, i, sc) ==
    IF i > Len(listing) THEN sc
    ELSE ScanFiles(listing, i + 1, ScanFile(sc, listing[i], i))

\* lines 179-237
extract_devices_from_yaml(exists, listing) ==
    IF ~exists THEN <<>>
    ELSE ScanFiles(listing, 1, [device_list |-> <<>>, seen_devices |-> {}]).device_list

(***************************************************************************)
(* get_interfaces_without_policy                                           *)
(***************************************************************************)
Bool(b) == [t |-> "bool",
            s |-> IF b THEN <<"T","r","u","e">> ELSE <<"F","a","l","s","e">>,
            items |-> <<>>]
Number(digits) == [t |-> "int", s |-> digits, items |-> <<>>]

key_Interface == <<"I","n","t","e","r","f","a","c","e">>
key_Policy == <<"P","o","l","i","c","y">>
key_Name == <<"N","a","m","e">>
key_Enable_Interface ==
    <<"E","n","a","b","l","e"," ","I","n","t","e","r","f","a","c","e">>

\* key in mapping
HasKey(m, key) == \E i \in DOMAIN m.items : m.items[i].k = key

\* mapping.get(key, default)
Get(m, key, default) ==
    IF HasKey(m, key)
    THEN m.items[CHOOSE i \in DOMAIN m.items : m.items[i].k = key].v
    ELSE default

\* bool(value)
Truthy(v) ==
    IF v.t = "bool" THEN v = Bool(TRUE)
    ELSE IF v.t = "int" THEN v.s # <<"0">>
    ELSE IF v.t = "str" THEN v.s # <<>>
    ELSE IF v.t \in {"map", "seq"} THEN v.items # <<>>
    ELSE FALSE

\* lines 84-89: the Enable Interface flag as a boolean
EnableOf(entry) ==
    LET enable_val == Get(entry, key_Enable_Interface, Bool(TRUE))
    IN  IF enable_val.t = "str"
        THEN Lower(enable_val.s) \in { <<"t","r","u","e">>, <<"y","e","s">>, <<"1">> }
        ELSE Truthy(enable_val)

\* lines 73-100; the description is carried to the report only and left out
RECURSIVE PolicyLess(_, _)
PolicyLess(elems, i) ==
    IF i > Len(elems) THEN <<>>
    ELSE LET e == elems[i]
             rest == PolicyLess(elems, i + 1)
         IN  IF e.t = "map" /\ ~HasKey(e, key_Policy)
             THEN <<[name |-> Get(e, key_Name, Str(<<>>)), enable |-> EnableOf(e)]>> \o rest
             ELSE rest

get_interfaces_without_policy(config) ==
    IF config.t = "map" /\ HasKey(config, key_Interface)
                        /\ Get(config, key_Interface, None).t = "seq"
    THEN PolicyLess(Get(config, key_Interface, None).items, 1)
    ELSE <<>>

(***************************************************************************)
(* check_device_interface_connectivity: reconciliation                     *)
(***************************************************************************)
\* str.replace(old, new)
RECURSIVE Replace(_, _, _)
Replace(s, old, new) ==
    IF s = <<>> THEN <<>>
    ELSE IF HasAt(s, old, 1)
         THEN new \o Replace(SubSeq(s, Len(old) + 1, Len(s)), old, new)
         ELSE <<s[1]>> \o Replace(Tail(s), old, new)

\* line 143
EthName(interface_name) ==
    Replace(interface_name, <<"E","t","h","e","r","n","e","t">>, <<"E","t","h">>)

\* line 145: interface_status_map.get(eth_name, 'not found')
StatusOf(interface_status_map, eth_name) ==
    IF eth_name \in DOMAIN interface_status_map
    THEN interface_status_map[eth_name]
    ELSE not_found

\* Matches without the second disjunct of lines 152-153
MatchesEnabledOnly(actual_status, expected_enable) ==
    (actual_status = connected) /\ expected_enable

\* lines 151-153
Matches(actual_status, expected_enable) ==
    LET actual_is_connected == (actual_status = connected)
    IN  \/ (actual_is_connected /\ expected_enable)
        \/ (~actual_is_connected /\ ~expected_enable)

\* lines 139-161: the result appended for one interface
InterfaceResult(interface_status_map, entry) ==
    LET st == StatusOf(interface_status_map, EthName(entry.name.s))
    IN  [name |-> entry.name.s, status |-> st, expected_enable |-> entry.enable,
         matches_config |-> Matches(st, entry.enable)]

\* lines 138-161: the loop; a name that is not a string has no replace(), the
\* AttributeError leaves the loop with the results appended so far
RECURSIVE Reconcile(_, _, _, _)
Reconcile(interface_status_map, entries, i, acc) ==
    IF i > Len(entries) THEN [interface_results |-> acc, error |-> FALSE]
    ELSE IF entries[i].name.t # "str" THEN [interface_results |-> acc, error |-> TRUE]
    ELSE Reconcile(interface_status_map, entries, i + 1,
                   Append(acc, InterfaceResult(interface_status_map, entries[i])))

\* lines 165-170: the message each except clause stores
ErrorMessage(kind) ==
    IF kind = "timeout" THEN "Connection Timeout"
    ELSE IF kind = "auth" THEN "Authentication Failed"
    ELSE "Error: exception"

\* Accumulate without the else branch of line 304: an unreachable device is
\* reported and leaves the flag alone
AccumulateMatchesOnly(match, res) ==
    match /\ \A i \in DOMAIN res.interface_results :
                 res.interface_results[i].matches_config

\* lines 281-306: what one device's results leave in interconnects_config_match
Accumulate(match, res) ==
    IF res.connected
    THEN match /\ \A i \in DOMAIN res.interface_results :
                      res.interface_results[i].matches_config
    ELSE FALSE

(***************************************************************************)
(* State                                                                   *)
(***************************************************************************)
VARIABLES
    \* parse_interface_status_output
    parse_pc,          \* "idle", "for" (line 19), "body" (lines 21-64), "return" (line 66)
    line,              \* the line the loop is at
    interface,         \* m.group(1) of the last line parsed, <<>> when it did not match
    status,            \* the status of the last line parsed
    strategy,          \* the branch that set it: "token", "keyword", "column", "none"
    interface_status,  \* the map under construction; in check(), the map
                       \* line 135 got for the device being checked
    \* find_device_info
    find_pc,           \* "idle", "call" (line 225), "found" (line 228)
    data,              \* the parsed document
    device_info,       \* the dict of line 209
    \* extract_devices_from_yaml
    scan_pc,           \* "idle", "start" (line 183), "loop" (line 189), "return"
    yaml_exists,       \* yaml_path.exists()
    files,             \* what yaml_path.rglob("*") yields, in its order
    file_idx,          \* how many of them the loop has taken
    device_list,
    seen_devices,
    \* check
    pc,                \* "idle" or the position in check(), see the actions
    dev,               \* index in device_list of the device being checked
    results,           \* the results dict of check_device_interface_connectivity
    raised,            \* the RemoteSession call that raised for this device, or "none"
    report,            \* the results printed so far, one per device, in order
    raised_log,        \* `raised` of the devices reported so far
    attempts,          \* the devices ConnectHandler was called for, in order
    open_sessions,     \* devices whose session was opened and not disconnected
    interconnects_config_match,
    verdict            \* what check() returned: "none" until it returns

parse_vars == <<parse_pc, line, interface, status, strategy, interface_status>>
find_vars == <<find_pc, data, device_info>>
scan_vars == <<scan_pc, yaml_exists, files, file_idx, device_list, seen_devices>>
check_vars == <<pc, dev, results, raised, report, raised_log, attempts, open_sessions,
                interconnects_config_match, verdict>>

vars == <<parse_vars, find_vars, scan_vars, check_vars>>

\* the parts of the state a specification does not exercise stay as constructed
ParseIdle ==
    /\ parse_pc = "idle"
    /\ line = <<>>
    /\ interface = <<>>
    /\ status = unknown
    /\ strategy = "none"
    /\ interface_status = <<>>

FindIdle ==
    /\ find_pc = "idle"
    /\ data = None
    /\ device_info = <<>>

ScanIdle ==
    /\ scan_pc = "idle"
    /\ yaml_exists = TRUE
    /\ files = <<>>
    /\ file_idx = 0
    /\ device_list = <<>>
    /\ seen_devices = {}

NoResults == [connected |-> FALSE, hostname |-> <<>>, interface_results |-> <<>>,
              error_message |-> ""]

CheckIdle ==
    /\ pc = "idle"
    /\ dev = 0
    /\ results = NoResults
    /\ raised = "none"
    /\ report = <<>>
    /\ raised_log = <<>>
    /\ attempts = <<>>
    /\ open_sessions = {}
    /\ interconnects_config_match = TRUE
    /\ verdict = "none"

(***************************************************************************)
(* Inputs of the parser: lines of `show interface status` output           *)
(***************************************************************************)
MaxTokens == 2

\* what a line starts with: an interface in short form, the same after leading
\* blanks, a breakout name followed by a letter (the expression of line 22
\* backtracks to Eth1/1), and a port-channel, which it ignores
FirstTokens ==
    { <<"E","t","h","1","/","1">>,
      <<" "," ","E","t","h","1","/","1">>,
      <<"E","t","h","1","/","1","/","1","x">>,
      <<"P","o","1">> }

Gaps == { <<" ">>, <<" "," ">> }

ParseVocab ==
    { connected,
      <<"N","o","t">>,
      <<"s","f","p","-","c","o","n","n","e","c","t","e","d">>,
      errdisabled,
      <<"u","p">> }

RECURSIVE TailSet(_)
TailSet(n) ==
    IF n = 0 THEN {<<>>}
    ELSE LET T == TailSet(n - 1)
         IN  T \cup {t \o g \o w : t \in T, g \in Gaps, w \in ParseVocab}

LineSet == {f \o t : f \in FirstTokens, t \in TailSet(MaxTokens)}

(***************************************************************************)
(* parse_interface_status_output, one loop iteration at a time             *)
(***************************************************************************)
ParseInit ==
    /\ parse_pc = "for"
    /\ line = <<>>
    /\ interface = <<>>
    /\ status = unknown
    /\ strategy = "none"
    /\ interface_status = <<>>
    /\ FindIdle /\ ScanIdle /\ CheckIdle

\* line 19: the loop takes the next line of the output
ReadLine ==
    /\ parse_pc = "for"
    /\ \E ln \in LineSet : line' = ln
    /\ parse_pc' = "body"
    /\ UNCHANGED <<interface, status, strategy, interface_status>>
    /\ UNCHANGED <<find_vars, scan_vars, check_vars>>

\* lines 21-64: the loop body
ParseLine ==
    /\ parse_pc = "body"
    /\ LET s == LStrip(line)
           m == MatchInterface(s)
           r == LineResult(s)
       IN  /\ interface' = SubSeq(s, 1, m)
           /\ status' = IF m > 0 THEN r.status ELSE unknown
           /\ strategy' = IF m > 0 THEN r.strategy ELSE "none"
           /\ interface_status' =
                  IF m > 0 THEN (SubSeq(s, 1, m) :> r.status) @@ interface_status
                  ELSE interface_status
    /\ line' = <<>>
    /\ parse_pc' = "for"
    /\ UNCHANGED <<find_vars, scan_vars, check_vars>>

\* line 66: the output has no more lines
ParseReturn ==
    /\ parse_pc = "for"
    /\ parse_pc' = "return"
    /\ UNCHANGED <<line, interface, status, strategy, interface_status>>
    /\ UNCHANGED <<find_vars, scan_vars, check_vars>>

ParseNext == ReadLine \/ ParseLine \/ ParseReturn

SpecParse == ParseInit /\ [][ParseNext]_vars

(***************************************************************************)
(* Inputs of the scanner: documents and directory listings                 *)
(***************************************************************************)
MaxEntries == 2
MaxFiles == 3

host_sw   == <<"s","w">>
host_sw_1 == <<"s","w","_","1">>
addr_10   == <<"1","0">>
addr_1_10 == <<"1","_","1","0">>

\* entries whose key names the hostname or the address, in several spellings
IdEntries ==
    { Entry(key_hostname, Str(host_sw)),
      Entry(<<"H","o","s","t","n","a","m","e">>, Str(host_sw_1)),
      Entry(key_ip_address, Str(addr_10)),
      Entry(<<"I","P","_","A","d","d","r","e","s","s">>, Str(addr_1_10)) }

\* the entries a mapping of the model is made of: scalars, a nested mapping, a
\* sequence of mappings, and a hostname whose value is itself a mapping
DocEntries ==
    IdEntries
    \cup { Entry(<<"n","a","m","e">>, Str(<<"x">>)) }
    \cup { Entry(<<"s","u","b">>, Map(<<e>>)) : e \in IdEntries }
    \cup { Entry(<<"l","i","s","t">>,
                 List(<< Map(<<Entry(key_hostname, Str(<<"l","f">>))>>),
                         Map(<<Entry(key_ip_underscore, Str(<<"9">>))>>) >>)),
           Entry(key_hostname, Map(<<Entry(key_ip_address, Str(<<"7">>))>>)) }

RECURSIVE EntrySeqs(_)
EntrySeqs(n) ==
    IF n = 0 THEN {<<>>}
    ELSE LET T == EntrySeqs(n - 1)
         IN  T \cup {Append(es, e) : es \in T, e \in DocEntries}

\* a YAML mapping holds each key once
DistinctKeys(es) == \A i, j \in DOMAIN es : es[i].k = es[j].k => i = j

FindDocSet == {Map(es) : es \in {x \in EntrySeqs(MaxEntries) : DistinctKeys(x)}}

IdDoc(h, a) == Map(<<Entry(key_hostname, Str(h)), Entry(key_ip_address, Str(a))>>)

File(isfile, suffix, parts, readable, doc) ==
    [is_file |-> isfile, suffix |-> suffix, rel_parts |-> parts,
     readable |-> readable, data |-> doc]

dot_yaml == <<".","y","a","m","l">>

\* device documents two levels down, one of them nested and under a .YML name,
\* one without an address; then a directory, a text file, a document directly
\* under the root and a document that cannot be read
ScanFileSet ==
    { File(TRUE, dot_yaml, 2, TRUE, IdDoc(h, a)) :
          h \in {host_sw, host_sw_1}, a \in {addr_10, addr_1_10} }
    \cup { File(TRUE, <<".","Y","M","L">>, 3, TRUE,
                Map(<<Entry(<<"s","u","b">>, IdDoc(host_sw, addr_10))>>)),
           File(TRUE, dot_yaml, 2, TRUE, Map(<<Entry(key_hostname, Str(host_sw))>>)),
           File(FALSE, <<>>, 1, TRUE, None),
           File(TRUE, <<".","t","x","t">>, 2, TRUE, IdDoc(host_sw, addr_10)),
           File(TRUE, dot_yaml, 1, TRUE, IdDoc(host_sw, addr_10)),
           File(TRUE, dot_yaml, 2, FALSE, None) }

RECURSIVE Listings(_, _)
Listings(S, n) ==
    IF n = 0 THEN {<<>>}
    ELSE LET T == Listings(S, n - 1)
         IN  T \cup {Append(fs, f) : fs \in T, f \in S}

(***************************************************************************)
(* find_device_info on one document                                        *)
(***************************************************************************)
FindInit ==
    /\ find_pc = "call"
    /\ data \in FindDocSet
    /\ device_info = <<>>
    /\ ParseIdle /\ ScanIdle /\ CheckIdle

\* line 225: find_device_info(data)
FindDeviceInfo ==
    /\ find_pc = "call"
    /\ device_info' = find_device_info(data, device_info)
    /\ find_pc' = "found"
    /\ UNCHANGED <<data, parse_vars, scan_vars, check_vars>>

FindNext == FindDeviceInfo

SpecFind == FindInit /\ [][FindNext]_vars

(***************************************************************************)
(* extract_devices_from_yaml, one file at a time                           *)
(***************************************************************************)
ScanInit ==
    /\ scan_pc = "start"
    /\ yaml_exists \in BOOLEAN
    /\ files \in Listings(ScanFileSet, MaxFiles)
    /\ file_idx = 0
    /\ device_list = <<>>
    /\ seen_devices = {}
    /\ ParseIdle /\ FindIdle /\ CheckIdle

\* lines 183-185: a missing directory ends the scan at once
ScanStart ==
    /\ scan_pc = "start"
    /\ scan_pc' = IF yaml_exists THEN "loop" ELSE "return"
    /\ UNCHANGED <<yaml_exists, files, file_idx, device_list, seen_devices>>
    /\ UNCHANGED <<parse_vars, find_vars, check_vars>>

\* lines 189-235: the next file of the listing
ScanStep ==
    /\ scan_pc = "loop"
    /\ file_idx < Len(files)
    /\ LET sc == ScanFile([device_list |-> device_list, seen_devices |-> seen_devices],
                          files[file_idx + 1], file_idx + 1)
       IN  /\ device_list' = sc.device_list
           /\ seen_devices' = sc.seen_devices
    /\ file_idx' = file_idx + 1
    /\ UNCHANGED <<scan_pc, yaml_exists, files>>
    /\ UNCHANGED <<parse_vars, find_vars, check_vars>>

\* line 237
ScanReturn ==
    /\ scan_pc = "loop"
    /\ file_idx = Len(files)
    /\ scan_pc' = "return"
    /\ UNCHANGED <<yaml_exists, files, file_idx, device_list, seen_devices>>
    /\ UNCHANGED <<parse_vars, find_vars, check_vars>>

ScanNext == ScanStart \/ ScanStep \/ ScanReturn

SpecScan == ScanInit /\ [][ScanNext]_vars

(***************************************************************************)
(* Inputs of check(): device documents and RemoteSession outcomes          *)
(***************************************************************************)
MaxDevices == 2

Ethernet1_1 == <<"E","t","h","e","r","n","e","t","1","/","1">>
Ethernet1_9 == <<"E","t","h","e","r","n","e","t","1","/","9">>
mgmt0 == <<"m","g","m","t","0">>
GigabitEthernet1_1 ==
    <<"G","i","g","a","b","i","t","E","t","h","e","r","n","e","t","1","/","1">>

DeviceDoc(h, a, ifaces) ==
    Map(<<Entry(key_hostname, Str(h)), Entry(key_ip_address, Str(a)),
          Entry(key_Interface, List(ifaces))>>)

\* four device documents (interfaces enabled by default, by a boolean, by a
\* string, disabled, carrying a Policy, without a Name, with a number as Name,
\* with 'Ethernet' inside the name; one document without an Interface list)
\* and a document directly under the root
CheckFileSet ==
    { File(TRUE, dot_yaml, 2, TRUE,
           DeviceDoc(host_sw, addr_10,
               << Map(<<Entry(key_Name, Str(Ethernet1_1))>>),
                  Map(<<Entry(key_Name, Str(mgmt0)),
                        Entry(key_Enable_Interface, Bool(TRUE))>>),
                  Map(<<Entry(key_Name, Str(GigabitEthernet1_1)),
                        Entry(key_Enable_Interface, Bool(FALSE))>>) >>)),
      File(TRUE, dot_yaml, 2, TRUE,
           DeviceDoc(host_sw_1, addr_10,
               << Map(<<Entry(key_Name, Str(Ethernet1_1)),
                        Entry(key_Enable_Interface, Str(<<"N","o">>))>>),
                  Map(<<Entry(key_Enable_Interface, Bool(FALSE))>>),
                  Map(<<Entry(key_Name, Str(Ethernet1_9)),
                        Entry(key_Policy, Str(<<"p">>))>>) >>)),
      File(TRUE, dot_yaml, 2, TRUE, IdDoc(host_sw, addr_1_10)),
      File(TRUE, dot_yaml, 2, TRUE,
           DeviceDoc(host_sw_1, addr_1_10,
               << Map(<<Entry(key_Name, Str(Ethernet1_9)),
                        Entry(key_Enable_Interface, Str(<<"Y","E","S">>))>>),
                  Map(<<Entry(key_Name, Number(<<"5">>))>>) >>)),
      File(TRUE, dot_yaml, 1, TRUE, IdDoc(host_sw, addr_10)) }

\* what `show interface status` returns, as output.split('\n')
OutputSet ==
    { << <<"P","o","r","t"," "," ","N","a","m","e"," "," ","S","t","a","t","u","s">>,
         <<"E","t","h","1","/","1"," "," ","u","p","l","i","n","k"," "," ",
           "c","o","n","n","e","c","t","e","d"," "," ","1">>,
         <<"m","g","m","t","0"," ","-","-"," ","c","o","n","n","e","c","t","e","d">> >>,
      << <<"E","t","h","1","/","1"," ","-","-"," ","N","o","t"," ",
           "c","o","n","n","e","c","t">>,
         <<"m","g","m","t","0"," "," ","-","-"," "," ","u","p"," "," ",
           "r","o","u","t","e","d">> >>,
      << <<>> >> }

\* the exceptions a RemoteSession call raises, by the except clause that takes them
ConnectErrors == {"timeout", "auth", "other"}
CommandErrors == {"timeout", "other"}
DisconnectErrors == {"other"}

(***************************************************************************)
(* check()                                                                 *)
(***************************************************************************)
CheckInit ==
    /\ pc = "start"
    /\ yaml_exists \in BOOLEAN
    /\ files \in Listings(CheckFileSet, MaxDevices)
    /\ scan_pc = "idle"
    /\ file_idx = 0
    /\ device_list = <<>>
    /\ seen_devices = {}
    /\ dev = 0
    /\ results = NoResults
    /\ raised = "none"
    /\ report = <<>>
    /\ raised_log = <<>>
    /\ attempts = <<>>
    /\ open_sessions = {}
    /\ interconnects_config_match = TRUE
    /\ verdict = "none"
    /\ ParseIdle /\ FindIdle

\* the document of the device being checked, read again through its filepath
DeviceConfig == files[device_list[dev]["filepath"]].data

\* Discover without the test of line 266: the loop runs over no device
DiscoverWithoutGuard ==
    /\ pc = "start"
    /\ \E found \in {extract_devices_from_yaml(yaml_exists, files)} :
           /\ device_list' = found
           /\ IF found = <<>>
              THEN /\ pc' = "aggregate"
                   /\ dev' = dev
              ELSE /\ pc' = "connect"
                   /\ dev' = 1
    /\ interconnects_config_match' = TRUE
    /\ UNCHANGED <<results, raised, report, raised_log, attempts, open_sessions, verdict>>
    /\ UNCHANGED <<scan_pc, yaml_exists, files, file_idx, seen_devices>>
    /\ UNCHANGED <<parse_vars, find_vars>>

\* lines 258-273: discovery; an empty device list returns False at once
Discover ==
    /\ pc = "start"
    /\ \E found \in {extract_devices_from_yaml(yaml_exists, files)} :
           /\ device_list' = found
           /\ IF found = <<>>
              THEN /\ verdict' = FALSE
                   /\ pc' = "done"
                   /\ dev' = dev
              ELSE /\ verdict' = verdict
                   /\ pc' = "connect"
                   /\ dev' = 1
    /\ interconnects_config_match' = TRUE
    /\ UNCHANGED <<results, raised, report, raised_log, attempts, open_sessions>>
    /\ UNCHANGED <<scan_pc, yaml_exists, files, file_idx, seen_devices>>
    /\ UNCHANGED <<parse_vars, find_vars>>

\* lines 107-132 and 165-170: ConnectHandler(**device) returns or raises
Connect ==
    /\ pc = "connect"
    /\ attempts' = Append(attempts, dev)
    /\ LET fresh == [NoResults EXCEPT !.hostname = device_list[dev]["hostname"].s]
       IN  \/ /\ results' = [fresh EXCEPT !.connected = TRUE]
              /\ raised' = "none"
              /\ open_sessions' = open_sessions \cup {dev}
              /\ pc' = IF get_interfaces_without_policy(DeviceConfig) # <<>>
                       THEN "send_command" ELSE "disconnect"
           \/ \E kind \in ConnectErrors :
              /\ results' = [fresh EXCEPT !.error_message = ErrorMessage(kind)]
              /\ raised' = "connect"
              /\ open_sessions' = open_sessions
              /\ pc' = "report"
    /\ UNCHANGED <<dev, report, raised_log, interconnects_config_match, verdict>>
    /\ UNCHANGED <<scan_vars, parse_vars, find_vars>>

\* lines 134-161 and 165-170: send_command returns the output, which is parsed
\* and reconciled, or raises; an exception leaves the try block before line 163
SendCommand ==
    /\ pc = "send_command"
    /\ \/ \E interfaces \in {get_interfaces_without_policy(DeviceConfig)} :
          \E status_output \in OutputSet :
          \E interface_status_map \in {parse_interface_status_output(status_output)} :
          \E rec \in {Reconcile(interface_status_map, interfaces, 1, <<>>)} :
                /\ interface_status' = interface_status_map
                /\ results' =
                       [results EXCEPT
                           !.interface_results = rec.interface_results,
                           !.error_message =
                               IF rec.error THEN ErrorMessage("other") ELSE @]
                /\ raised' = raised
                /\ pc' = IF rec.error THEN "report" ELSE "disconnect"
       \/ \E kind \in CommandErrors :
            /\ interface_status' = interface_status
            /\ results' = [results EXCEPT !.error_message = ErrorMessage(kind)]
            /\ raised' = "send_command"
            /\ pc' = "report"
    /\ UNCHANGED <<dev, report, raised_log, attempts, open_sessions,
                   interconnects_config_match, verdict>>
    /\ UNCHANGED <<parse_pc, line, interface, status, strategy>>
    /\ UNCHANGED <<scan_vars, find_vars>>

\* lines 163-172: connection.disconnect() returns or raises
Disconnect ==
    /\ pc = "disconnect"
    /\ open_sessions' = open_sessions \ {dev}
    /\ \/ /\ results' = results
          /\ raised' = raised
       \/ \E kind \in DisconnectErrors :
          /\ results' = [results EXCEPT !.error_message = ErrorMessage(kind)]
          /\ raised' = "disconnect"
    /\ pc' = "report"
    /\ UNCHANGED <<dev, report, raised_log, attempts, interconnects_config_match, verdict>>
    /\ UNCHANGED <<scan_vars, parse_vars, find_vars>>

\* Report leaving the loop at the first device that could not be connected
ReportStopsAtFailure ==
    /\ pc = "report"
    /\ interconnects_config_match' = Accumulate(interconnects_config_match, results)
    /\ report' = Append(report, results)
    /\ raised_log' = Append(raised_log, raised)
    /\ IF dev < Len(device_list) /\ results.connected
       THEN /\ dev' = dev + 1
            /\ pc' = "connect"
       ELSE /\ dev' = dev
            /\ pc' = "aggregate"
    /\ UNCHANGED <<results, raised, attempts, open_sessions, verdict>>
    /\ UNCHANGED <<scan_vars, parse_vars, find_vars>>

\* lines 281-308: the device's part of the report, and the next device
Report ==
    /\ pc = "report"
    /\ interconnects_config_match' = Accumulate(interconnects_config_match, results)
    /\ report' = Append(report, results)
    /\ raised_log' = Append(raised_log, raised)
    /\ IF dev < Len(device_list)
       THEN /\ dev' = dev + 1
            /\ pc' = "connect"
       ELSE /\ dev' = dev
            /\ pc' = "aggregate"
    /\ UNCHANGED <<results, raised, attempts, open_sessions, verdict>>
    /\ UNCHANGED <<scan_vars, parse_vars, find_vars>>

\* lines 310-319: the banner and the return value
Aggregate ==
    /\ pc = "aggregate"
    /\ verdict' = interconnects_config_match
    /\ pc' = "done"
    /\ UNCHANGED <<dev, results, raised, report, raised_log, attempts, open_sessions,
                   interconnects_config_match>>
    /\ UNCHANGED <<scan_vars, parse_vars, find_vars>>

Next == Discover \/ Connect \/ SendCommand \/ Disconnect \/ Report \/ Aggregate

Spec == CheckInit /\ [][Next]_vars

\* check() is one sequential call: while a step is possible the next one is taken
FairSpec == Spec /\ WF_vars(Next)

(***************************************************************************)
(* Properties of check()                                                   *)
(***************************************************************************)
AllMatch(res) ==
    \A i \in DOMAIN res.interface_results : res.interface_results[i].matches_config

\* C1: when check() has returned over a non-empty device list, every device
\* has one result, and the verdict is true exactly when every result is
\* connected and every interface result of every device matches.
C1_VerdictIsConjunction ==
    (pc = "done" /\ device_list # <<>>) =>
        /\ Len(report) = Len(device_list)
        /\ (verdict = TRUE) <=>
               \A d \in DOMAIN report : report[d].connected /\ AllMatch(report[d])

\* C1 witness: the first device is connected with matching interfaces, the
\* second is unreachable, and the run has returned false.
C1_Witness ==
    /\ pc = "done"
    /\ Len(report) = 2
    /\ report[1].connected /\ report[1].interface_results # <<>> /\ AllMatch(report[1])
    /\ ~report[2].connected
    /\ verdict = FALSE

\* C2: once check() has returned, every device for which a RemoteSession call
\* raised (connect, send_command or disconnect) has connected = false and a
\* non-empty error message, and the verdict is false.
C2_RaiseMeansUnreachable ==
    pc = "done" =>
        \A d \in DOMAIN report :
            raised_log[d] # "none" =>
                /\ ~report[d].connected
                /\ report[d].error_message # ""
                /\ verdict = FALSE

\* the devices attempted so far are the first ones of the list, in list order
AttemptsInOrder ==
    /\ Len(attempts) <= Len(device_list)
    /\ \A k \in DOMAIN attempts : attempts[k] = k

\* C3: devices are attempted once each and in list order, a device that failed
\* is followed by the attempt of the next one, and the run reaches done with
\* one verdict, set once, after every device has been attempted.
C3_EveryDeviceThenDone ==
    /\ [](AttemptsInOrder)
    /\ []((pc = "connect" /\ dev > 1) => Len(attempts) = dev - 1)
    /\ [][verdict # "none" => verdict' = verdict]_vars
    /\ <>(pc = "done" /\ verdict \in BOOLEAN /\ Len(attempts) = Len(device_list)
                      /\ Len(report) = Len(device_list))

\* C3 witness: the first of two devices failed to connect, the second was
\* attempted all the same, and the run is done.
C3_Witness ==
    /\ pc = "done"
    /\ attempts = <<1, 2>>
    /\ ~report[1].connected
    /\ report[2].connected

\* the translation the claim describes: a leading 'Ethernet' becomes 'Eth'
C4_ShortName(name) ==
    IF HasAt(name, <<"E","t","h","e","r","n","e","t">>, 1)
    THEN <<"E","t","h">> \o SubSeq(name, 9, Len(name))
    ELSE name

C4_Law(r, map) ==
    /\ r.status = IF C4_ShortName(r.name) \in DOMAIN map
                  THEN map[C4_ShortName(r.name)] ELSE not_found
    /\ r.matches_config = ((r.status = connected) = r.expected_enable)

\* C4: every interface result of the device being checked has the status the
\* status map holds under the translated name, or 'not found', and
\* matches = ((status = 'connected') = expectedEnabled); the results already
\* reported keep that relation of matches to status.
C4_ReconciliationLaw ==
    /\ \A i \in DOMAIN results.interface_results :
           C4_Law(results.interface_results[i], interface_status)
    /\ \A d \in DOMAIN report : \A i \in DOMAIN report[d].interface_results :
           LET r == report[d].interface_results[i]
           IN  r.matches_config = ((r.status = connected) = r.expected_enable)

\* C4 witness: one device's results hold a connected interface expected
\* disabled (no match) and one that is 'not found' and expected disabled (match).
C4_Witness ==
    \E i, j \in DOMAIN results.interface_results :
        /\ results.interface_results[i].status = connected
        /\ ~results.interface_results[i].expected_enable
        /\ ~results.interface_results[i].matches_config
        /\ results.interface_results[j].status = not_found
        /\ ~results.interface_results[j].expected_enable
        /\ results.interface_results[j].matches_config

\* C8: no session is open when the connection of a device is attempted nor
\* when the run is done, and never more than one is open.
C8_SessionsClosed ==
    /\ pc \in {"connect", "done"} => open_sessions = {}
    /\ Cardinality(open_sessions) <= 1

\* C10: after a discovery that found no device the run is done with the
\* verdict false, no connection was attempted and nothing was reported.
C10_EmptyDiscoveryFails ==
    (pc # "start" /\ device_list = <<>>) =>
        /\ pc = "done"
        /\ verdict = FALSE
        /\ attempts = <<>>
        /\ open_sessions = {}
        /\ report = <<>>

\* C10 witness: the directory exists and lists files, none yields a device,
\* and the run is done.
C10_Witness ==
    /\ pc = "done"
    /\ yaml_exists
    /\ files # <<>>
    /\ device_list = <<>>
    /\ verdict = FALSE

(***************************************************************************)
(* Properties of parse_interface_status_output                             *)
(***************************************************************************)
C5_Keywords == {connected, notconnect, kw_not, disabled, err_disabled, suspended}

\* the status the three strategies give in the precedence the claim states
C5_Expected(s) ==
    LET tokens == Split(s)
        hits == {i \in 2..Len(tokens) : Lower(tokens[i]) \in C5_Keywords}
        first == Lower(tokens[SetMin(hits)])
        low == Lower(s)
        order == << [hit |-> SearchErrDisabled(low), st |-> err_disabled],
                    [hit |-> SearchWord(low, disabled), st |-> disabled],
                    [hit |-> SearchNotConnect(low), st |-> notconnect],
                    [hit |-> SearchWord(low, suspended), st |-> suspended],
                    [hit |-> SearchWord(low, connected), st |-> connected] >>
        found == {i \in DOMAIN order : order[i].hit}
    IN  IF hits # {} THEN (IF first = kw_not THEN notconnect ELSE first)
        ELSE IF found # {} THEN order[SetMin(found)].st
        ELSE ColumnSlice(s)

\* C5: the loop body gives a line that begins with an interface token the
\* status of the first keyword token after the name ('not' as 'notconnect');
\* without such a token, the status of the first pattern of the keyword
\* search that matches the line; without a match, the column slice; and it
\* records that status under the interface.
C5_StrategyPrecedence ==
    [][(parse_pc = "body" /\ MatchInterface(LStrip(line)) > 0) =>
          /\ status' = C5_Expected(LStrip(line))
          /\ interface' \in DOMAIN interface_status'
          /\ interface_status'[interface'] = status']_vars

\* C5 witness: a line with no keyword token was parsed and the keyword search
\* set its status, err-disabled, which the map now holds.
C5_Witness ==
    /\ parse_pc = "for"
    /\ strategy = "keyword"
    /\ status = err_disabled
    /\ interface \in DOMAIN interface_status
    /\ interface_status[interface] = err_disabled

C6_Vocabulary == {connected, notconnect, disabled, err_disabled, suspended, unknown}

\* C6 as stated: every value of the status map is in the fixed vocabulary.
C6_FixedVocabulary ==
    \A k \in DOMAIN interface_status : interface_status[k] \in C6_Vocabulary

\* C6 amended: a value the loop body writes to the status map is in the fixed
\* vocabulary, or it is the column slice of a line on which neither the token
\* scan nor the keyword search recognised a keyword; the other values of the
\* map are the ones it held before.
C6_VocabularyOrColumnSlice ==
    [][\A k \in DOMAIN interface_status' :
          \/ interface_status'[k] \in C6_Vocabulary
          \/ /\ k \in DOMAIN interface_status
             /\ interface_status'[k] = interface_status[k]
          \/ /\ parse_pc = "body"
             /\ k = interface'
             /\ TokenScan(Split(LStrip(line)), 2) = unknown
             /\ KeywordSearch(Lower(LStrip(line))) = unknown
             /\ interface_status'[k] = ColumnSlice(LStrip(line))]_vars

\* C6 witness: the column slice put a word outside the vocabulary in the map.
C6_Witness ==
    /\ parse_pc = "for"
    /\ strategy = "column"
    /\ interface \in DOMAIN interface_status
    /\ interface_status[interface] = <<"u","p">>

(***************************************************************************)
(* Properties of find_device_info and extract_devices_from_yaml            *)
(***************************************************************************)
C9_IsAddressKey(key) == Lower(key) \in {key_ip_address, key_ip_underscore}
C9_IsHostnameKey(key) == Lower(key) = key_hostname

\* the entries the recursive search meets, in the order it meets them: the
\* entries of a mapping in document order, each followed by what is met inside
\* its value unless its key is an address or hostname key
RECURSIVE C9_Met(_)
RECURSIVE C9_MetFrom(_, _, _)
C9_MetFrom(elems, i, inMap) ==
    IF i > Len(elems) THEN <<>>
    ELSE LET e == elems[i]
             here == IF ~inMap THEN C9_Met(e)
                     ELSE IF C9_IsAddressKey(e.k) \/ C9_IsHostnameKey(e.k) THEN <<e>>
                     ELSE <<e>> \o C9_Met(e.v)
         IN  here \o C9_MetFrom(elems, i + 1, inMap)

C9_Met(obj) ==
    IF obj.t = "map" THEN C9_MetFrom(obj.items, 1, TRUE)
    ELSE IF obj.t = "seq" THEN C9_MetFrom(obj.items, 1, FALSE)
    ELSE <<>>

C9_Addresses == SelectSeq(C9_Met(data), LAMBDA e : C9_IsAddressKey(e.k))
C9_Hostnames == SelectSeq(C9_Met(data), LAMBDA e : C9_IsHostnameKey(e.k))

\* C9 as stated: the address and the hostname found are the values of the
\* first occurrence of each key.
C9_FirstOccurrenceWins ==
    find_pc = "found" =>
        /\ C9_Addresses # <<>> => device_info["ip"] = C9_Addresses[1].v
        /\ C9_Hostnames # <<>> => device_info["hostname"] = C9_Hostnames[1].v

\* C9 amended: the address and the hostname found are the values of the last
\* occurrence of each key met by the search, and a key that is never met
\* leaves its field absent.
C9_LastOccurrenceWins ==
    find_pc = "found" =>
        /\ ("ip" \in DOMAIN device_info) = (C9_Addresses # <<>>)
        /\ ("hostname" \in DOMAIN device_info) = (C9_Hostnames # <<>>)
        /\ C9_Addresses # <<>> =>
               device_info["ip"] = C9_Addresses[Len(C9_Addresses)].v
        /\ C9_Hostnames # <<>> =>
               device_info["hostname"] = C9_Hostnames[Len(C9_Hostnames)].v

\* C9 witness: the search met two hostname keys with different values and
\* kept the second.
C9_Witness ==
    /\ find_pc = "found"
    /\ Len(C9_Hostnames) = 2
    /\ C9_Hostnames[1].v # C9_Hostnames[2].v
    /\ device_info["hostname"] = C9_Hostnames[2].v

\* the files of the listing that yield a descriptor candidate: eligible,
\* readable, with an address and a hostname found
C7_Yields(i) ==
    LET f == files[i]
        info == find_device_info(f.data, <<>>)
    IN  /\ f.is_file /\ SuffixEligible(f.suffix) /\ f.rel_parts >= 2 /\ f.readable
        /\ "ip" \in DOMAIN info /\ "hostname" \in DOMAIN info

C7_Pair(i) ==
    LET info == find_device_info(files[i].data, <<>>)
    IN  <<info["hostname"], info["ip"]>>

====
